---- MODULE Spec2Model ----
(***************************************************************************)
(* A model of multielo's player_tracker.py: the Player object (current     *)
(* rating plus a list of (date, rating) history entries) and the Tracker   *)
(* (a table player_df of player_id / Player rows, kept sorted by           *)
(* player_id, and process_data which replays a table of matchups).         *)
(*                                                                         *)
(* Dates are the integers 1..MaxDate (the code compares date strings; the  *)
(* integers are order-isomorphic to "2024-01-01" < "2024-01-02" < ...);    *)
(* a missing date (None / NaN) is NoDate.  Ratings are integers.           *)
(***************************************************************************)
EXTENDS Integers, Sequences, FiniteSets, TLC

VARIABLES
    alive,       \* TRUE when Tracker.__init__ returned, FALSE when it raised
    player_df,   \* Tracker.player_df: sequence of [player_id, player] rows
    player,      \* a Player object used on its own (no Tracker)
    op,          \* name of the last operation called
    arg,         \* the arguments of the last operation
    ret,         \* what the last operation returned
    err,         \* TRUE when the last operation raised
    pre,         \* player_df as it was when the last operation was called
    seed,        \* the player_df handed to Tracker.__init__
    ctor,        \* the arguments player was constructed with
    log,         \* the matchup rows process_data's loop has taken up, in order,
                 \* each with whether its new ratings were written
    submitted    \* number of matchup rows handed over and of direct calls so far

vars == <<alive, player_df, player, op, arg, ret, err, pre, seed, ctor, log, submitted>>

(***************************************************************************)
(* Bounds of the model.                                                    *)
(***************************************************************************)
MaxDate == 2
MaxRows == 2
MaxHistory == 3
MaxParticipants == 3

\* date=None: a history entry or a matchup row without a date
NoDate == 0
\* an empty placement slot (NaN in the matchup table)
NoPlayer == "nan"

\* defaults["INITIAL_RATING"]
INITIAL_RATING == 1000
\* K of the rating algorithm
K_VALUE == 32
\* percentage points of win probability per PROB_STEP rating points
PROB_STEP == 7

Dates == 1..MaxDate
\* identities that matchup rows mention, and the ones a seed may also hold
RowIds == {"a", "b"}
AllIds == {"a", "b", "c"}
\* the order of the identity strings ("a" < "b" < "c" < ...)
IdOrder == <<"a", "b", "c", "d", "e", "f", "g", "h", "i", "j",
             "k", "l", "m", "n", "o", "p", "q", "r", "s", "t">>
IdOrd(id) == CHOOSE i \in 1..Len(IdOrder) : IdOrder[i] = id

\* the finishing-place columns of the matchup table, first to last
place_cols == <<"1st", "2nd">>

(***************************************************************************)
(* Sequence helpers.                                                       *)
(***************************************************************************)
RECURSIVE SeqsUpTo(_, _)
SeqsUpTo(S, n) ==
    IF n = 0 THEN {<<>>}
    ELSE LET shorter == SeqsUpTo(S, n - 1)
         IN  shorter \cup {Append(s, x) : s \in {t \in shorter : Len(t) = n - 1}, x \in S}

IsPrefix(s, t) == Len(s) <= Len(t) /\ SubSeq(t, 1, Len(s)) = s

(***************************************************************************)
(* Player                                                                  *)
(***************************************************************************)
\* the entry put in front of the list instead of at its end
UpdateRatingHistoryInFront(self, rating, date) ==
    [self EXCEPT !.rating_history = <<<<date, rating>>>> \o @]

\* Player._update_rating_history: self.rating_history.append((date, rating))
UpdateRatingHistory(self, rating, date) ==
    [self EXCEPT !.rating_history = Append(@, <<date, rating>>)]

\* an optional rating_history argument: None or a list
NoHistory == [given |-> FALSE, value |-> <<>>]
SomeHistory(h) == [given |-> TRUE, value |-> h]

\* Player.__init__
PlayerInit(player_id, rating, rating_history, date) ==
    LET new == [id |-> player_id, rating |-> rating, rating_history |-> <<>>]
    IN  IF ~rating_history.given
        THEN UpdateRatingHistory(new, rating, date)
        ELSE [new EXCEPT !.rating_history = rating_history.value]

\* update_rating without "self.rating = new_rating"
update_rating_history_only(self, new_rating, date) ==
    UpdateRatingHistory(self, new_rating, date)

\* Player.update_rating
update_rating(self, new_rating, date) ==
    UpdateRatingHistory([self EXCEPT !.rating = new_rating], new_rating, date)

\* Player.count_games
count_games(self) == Len(self.rating_history) - 1

(***************************************************************************)
(* The rating algorithm (MultiElo.get_new_ratings), in integers: every     *)
(* pair of participants exchanges K * (1 - P(winner beats loser)) points,  *)
(* P a piecewise-linear stand-in for the logistic curve.                   *)
(***************************************************************************)
Clamp(x, lo, hi) == IF x < lo THEN lo ELSE IF x > hi THEN hi ELSE x

WinProbPct(r_i, r_j) == Clamp(50 + ((r_i - r_j) \div PROB_STEP), 1, 99)

Transfer(r_winner, r_loser) == (K_VALUE * (100 - WinProbPct(r_winner, r_loser))) \div 100

RECURSIVE SumOver(_, _)
SumOver(f, S) ==
    IF S = {} THEN 0
    ELSE LET x == CHOOSE y \in S : TRUE IN f[x] + SumOver(f, S \ {x})

\* every participant credited with its wins and nobody debited for a loss
get_new_ratings_wins_only(initial_ratings) ==
    LET n == Len(initial_ratings)
        gain(i) == SumOver([j \in 1..n |-> Transfer(initial_ratings[i], initial_ratings[j])],
                           {j \in 1..n : j > i})
    IN  [i \in 1..n |-> initial_ratings[i] + gain(i)]

get_new_ratings(initial_ratings) ==
    LET n == Len(initial_ratings)
        gain(i) == SumOver([j \in 1..n |-> Transfer(initial_ratings[i], initial_ratings[j])],
                           {j \in 1..n : j > i})
        loss(i) == SumOver([j \in 1..n |-> Transfer(initial_ratings[j], initial_ratings[i])],
                           {j \in 1..n : j < i})
    IN  [i \in 1..n |-> initial_ratings[i] + gain(i) - loss(i)]

\* the algorithm rejects fewer than two ratings
get_new_ratings_raises(initial_ratings) == Len(initial_ratings) < 2

\* Player.get_rating_as_of_date, the rank of entry i among the entries of its date:
\* groupby(["date"]).rank(method="first", ascending=False) ranks the rating
\* column, highest rating first, equal ratings in order of appearance
RankInDate(h, i) ==
    1 + Cardinality({j \in 1..Len(h) : h[j][1] = h[i][1] /\ h[j][2] > h[i][2]})
      + Cardinality({j \in 1..(i - 1) : h[j][1] = h[i][1] /\ h[j][2] = h[i][2]})

\* the entries kept by history_df[history_df["r"] == 1]: groupby drops the
\* entries without a date, so their rank is NaN
OnePerDate(h) == {i \in 1..Len(h) : h[i][1] # NoDate /\ RankInDate(h, i) = 1}

\* the date filter with < for <=
UpToDateStrict(h, S, date) == {i \in S : h[i][1] < date}

\* history_df["date"] <= date
UpToDate(h, S, date) == {i \in S : h[i][1] <= date}

\* Player.get_rating_as_of_date
get_rating_as_of_date(self, date, default_rating) ==
    LET h == self.rating_history
        upto == UpToDate(h, OnePerDate(h), date)
    IN  IF upto = {}
        THEN default_rating
        ELSE h[CHOOSE i \in upto : \A j \in upto : h[j][1] <= h[i][1]][2]

(***************************************************************************)
(* Tracker                                                                 *)
(***************************************************************************)
PlayerIds(df) == [i \in 1..Len(df) |-> df[i].player_id]

Registered(df) == {df[i].player_id : i \in 1..Len(df)}

\* self.player_df["player_id"].is_unique
is_unique(ids) == \A i, j \in 1..Len(ids) : ids[i] = ids[j] => i = j

\* insertion of one row into a table sorted by player_id, after the rows that
\* do not come later
RECURSIVE InsertById(_, _)
InsertById(sorted, row) ==
    IF sorted = <<>> THEN <<row>>
    ELSE IF IdOrd(sorted[Len(sorted)].player_id) <= IdOrd(row.player_id)
         THEN Append(sorted, row)
         ELSE Append(InsertById(SubSeq(sorted, 1, Len(sorted) - 1), row), sorted[Len(sorted)])

\* player_df.sort_values("player_id").reset_index(drop=True)
RECURSIVE SortByPlayerId(_)
SortByPlayerId(df) ==
    IF df = <<>> THEN <<>>
    ELSE InsertById(SortByPlayerId(SubSeq(df, 1, Len(df) - 1)), df[Len(df)])

\* Tracker._validate_player_df: raises on duplicate ids, else sorts the table
validate_raises(df) == ~is_unique(PlayerIds(df))

\* _validate_player_df without its last line
validate_player_df_unsorted(df) == df

validate_player_df(df) == SortByPlayerId(df)

\* the Player stored under a registered id
PlayerOf(df, player_id) == df[CHOOSE i \in 1..Len(df) : df[i].player_id = player_id].player

\* the table with the Player of every row replaced
WithPlayerInEveryRow(df, player_id, new_player) ==
    [i \in 1..Len(df) |-> [df[i] EXCEPT !.player = new_player]]

\* the table with the Player stored under player_id replaced
WithPlayer(df, player_id, new_player) ==
    [i \in 1..Len(df) |-> IF df[i].player_id = player_id
                          THEN [df[i] EXCEPT !.player = new_player]
                          ELSE df[i]]

\* _create_new_player without its first check: the table is concatenated and
\* assigned before _validate_player_df raises
create_new_player_unchecked(df, player_id) ==
    LET new_player == PlayerInit(player_id, INITIAL_RATING, NoHistory, NoDate)
        add_df == <<[player_id |-> player_id, player |-> new_player]>>
    IN  IF validate_raises(df \o add_df)
        THEN [df |-> df \o add_df, err |-> TRUE]
        ELSE [df |-> validate_player_df(df \o add_df), err |-> FALSE]

\* _create_new_player with Player(player_id) given the first matchup's rating
\* swing instead of self.initial_player_rating
create_new_player_other_rating(df, player_id) ==
    IF player_id \in Registered(df)
    THEN [df |-> df, err |-> TRUE]
    ELSE LET new_player == PlayerInit(player_id, INITIAL_RATING + K_VALUE, NoHistory, NoDate)
             add_df == <<[player_id |-> player_id, player |-> new_player]>>
         IN  [df |-> validate_player_df(df \o add_df), err |-> FALSE]

\* Tracker._create_new_player: [df, err]
create_new_player(df, player_id) ==
    IF player_id \in Registered(df)
    THEN [df |-> df, err |-> TRUE]
    ELSE LET new_player == PlayerInit(player_id, INITIAL_RATING, NoHistory, NoDate)
             add_df == <<[player_id |-> player_id, player |-> new_player]>>
         IN  IF validate_raises(df \o add_df)
             THEN [df |-> df \o add_df, err |-> TRUE]
             ELSE [df |-> validate_player_df(df \o add_df), err |-> FALSE]

\* Tracker._get_or_create_player, as its effect on the table
get_or_create_player(df, player_id) ==
    IF player_id \in Registered(df) THEN df ELSE create_new_player(df, player_id).df

\* a lookup that registers the identity it does not find, the way
\* _get_or_create_player does
retrieve_or_create_player(df, player_id) ==
    LET df1 == get_or_create_player(df, player_id)
    IN  [df |-> df1, ret |-> PlayerOf(df1, player_id), err |-> FALSE]

\* Tracker.retrieve_existing_player: [df, ret, err], df the table after the
\* call, ret the Player returned (the first one stored under player_id)
retrieve_existing_player(df, player_id) ==
    IF player_id \in Registered(df)
    THEN [df |-> df, ret |-> PlayerOf(df, player_id), err |-> FALSE]
    ELSE [df |-> df, ret |-> <<>>, err |-> TRUE]

\* [row[x] for x in place_cols if not pd.isna(row[x])]
Participants(row) == SelectSeq(row.places, LAMBDA x : x # NoPlayer)

RECURSIVE GetOrCreateAll(_, _)
GetOrCreateAll(df, ids) ==
    IF ids = <<>> THEN df
    ELSE GetOrCreateAll(get_or_create_player(df, Head(ids)), Tail(ids))

\* for i, player in enumerate(players): player.update_rating(new_ratings[i], date=date)
RECURSIVE UpdateAll(_, _, _, _, _)
UpdateAll(df, ids, new_ratings, date, i) ==
    IF i > Len(ids) THEN df
    ELSE UpdateAll(WithPlayer(df, ids[i], update_rating(PlayerOf(df, ids[i]), new_ratings[i], date)),
                   ids, new_ratings, date, i + 1)

\* the body of process_data's loop for one row: [df, err]
ProcessRow(df, row) ==
    LET ids == Participants(row)
        df1 == GetOrCreateAll(df, ids)
        initial_ratings == [i \in 1..Len(ids) |-> PlayerOf(df1, ids[i]).rating]
    IN  IF get_new_ratings_raises(initial_ratings)
        THEN [df |-> df1, err |-> TRUE]
        ELSE [df |-> UpdateAll(df1, ids, get_new_ratings(initial_ratings), row.date, 1),
              err |-> FALSE]

\* the key of a descending sort
DateKeyDescending(row) == IF row.date = NoDate THEN MaxDate + 1 ELSE MaxDate - row.date

\* the key sort_values orders a row by: rows without a date go last
DateKey(row) == IF row.date = NoDate THEN MaxDate + 1 ELSE row.date

\* insertion of one row into a table sorted by date, after the rows of the same
\* date: sort_values' default quicksort is numpy's, which sorts a table this
\* short by insertion, so rows of one date keep their input order
RECURSIVE InsertByDate(_, _)
InsertByDate(sorted, row) ==
    IF sorted = <<>> THEN <<row>>
    ELSE IF DateKey(sorted[Len(sorted)]) <= DateKey(row)
         THEN Append(sorted, row)
         ELSE Append(InsertByDate(SubSeq(sorted, 1, Len(sorted) - 1), row), sorted[Len(sorted)])

\* the table left in its input order
Unsorted(df) == df

\* matchup_history_df.sort_values(date_col).reset_index(drop=True)
RECURSIVE SortByDate(_)
SortByDate(df) ==
    IF df = <<>> THEN <<>>
    ELSE InsertByDate(SortByDate(SubSeq(df, 1, Len(df) - 1)), df[Len(df)])

\* the table with no row dropped
KeepAllRows(df) == df

\* matchup_history_df.dropna(how="all", axis=0, subset=place_cols)
DropAllNaN(df) == SelectSeq(df, LAMBDA row : \E i \in 1..Len(row.places) : row.places[i] # NoPlayer)

\* process_data's loop over the rows: [df, err, taken], taken the rows the
\* loop took up, the last of them not rated when the algorithm raised on it
RECURSIVE IterRows(_, _, _)
IterRows(df, rows, taken) ==
    IF rows = <<>> THEN [df |-> df, err |-> FALSE, taken |-> taken]
    ELSE LET r == ProcessRow(df, Head(rows))
             entry == [row |-> Head(rows), rated |-> ~r.err]
         IN  IF r.err
             THEN [df |-> r.df, err |-> TRUE, taken |-> Append(taken, entry)]
             ELSE IterRows(r.df, Tail(rows), Append(taken, entry))

\* Tracker.process_data
process_data(df, matchup_history_df) ==
    IterRows(df, DropAllNaN(SortByDate(matchup_history_df)), <<>>)

\* numpy's quicksort, the default kind of sort_values, as argsort runs it on
\* a column v of keys: t holds the row numbers, and a stretch t[pl..pr] of at
\* most SMALL_QUICKSORT + 1 of them is sorted by insertion, which leaves rows
\* of equal key in the order it finds them; a longer stretch is first
\* partitioned around the median of its first, middle and last row, by
\* swapping rows across the pivot, rows of equal key included.
SMALL_QUICKSORT == 16

Swap(t, i, j) == [t EXCEPT ![i] = t[j], ![j] = t[i]]

\* for (pi = pl + 1; pi <= pr; ++pi): t[pi] moved left past the greater keys
RECURSIVE InsertLeft(_, _, _, _, _)
InsertLeft(v, t, pl, pj, vi) ==
    IF pj > pl /\ v[vi] < v[t[pj - 1]]
    THEN InsertLeft(v, [t EXCEPT ![pj] = t[pj - 1]], pl, pj - 1, vi)
    ELSE [t EXCEPT ![pj] = vi]

RECURSIVE InsertionSort(_, _, _, _, _)
InsertionSort(v, t, pl, pr, pi) ==
    IF pi > pr THEN t
    ELSE InsertionSort(v, InsertLeft(v, t, pl, pi, t[pi]), pl, pr, pi + 1)

\* the three compare-and-swaps that put the median key at pm
MedianOfThree(v, t, pl, pm, pr) ==
    LET t1 == IF v[t[pm]] < v[t[pl]] THEN Swap(t, pm, pl) ELSE t
        t2 == IF v[t1[pr]] < v[t1[pm]] THEN Swap(t1, pr, pm) ELSE t1
    IN  IF v[t2[pm]] < v[t2[pl]] THEN Swap(t2, pm, pl) ELSE t2

\* do ++pi; while (v[*pi] < vp)
RECURSIVE ScanUp(_, _, _, _)
ScanUp(v, t, pi, vp) == IF v[t[pi + 1]] < vp THEN ScanUp(v, t, pi + 1, vp) ELSE pi + 1

\* do --pj; while (vp < v[*pj])
RECURSIVE ScanDown(_, _, _, _)
ScanDown(v, t, pj, vp) == IF vp < v[t[pj - 1]] THEN ScanDown(v, t, pj - 1, vp) ELSE pj - 1

\* the partition loop: [t, pi] when the two scans have met
RECURSIVE Partition(_, _, _, _, _)
Partition(v, t, pi, pj, vp) ==
    LET up == ScanUp(v, t, pi, vp)
        down == ScanDown(v, t, pj, vp)
    IN  IF up >= down THEN [t |-> t, pi |-> up]
        ELSE Partition(v, Swap(t, up, down), up, down, vp)

RECURSIVE AQuicksort(_, _, _, _)
AQuicksort(v, t, pl, pr) ==
    IF pr - pl > SMALL_QUICKSORT
    THEN LET pm == pl + ((pr - pl) \div 2)
             t3 == MedianOfThree(v, t, pl, pm, pr)
             vp == v[t3[pm]]
             part == Partition(v, Swap(t3, pm, pr - 1), pl, pr - 1, vp)
             t5 == Swap(part.t, part.pi, pr - 1)
         IN  AQuicksort(v, AQuicksort(v, t5, pl, part.pi - 1), part.pi + 1, pr)
    ELSE InsertionSort(v, t, pl, pr, pl + 1)

\* v.argsort(kind="quicksort"): the row numbers of v in ascending order of key
argsort(v) == AQuicksort(v, [i \in 1..Len(v) |-> i], 1, Len(v))

Reversed(s) == [i \in 1..Len(s) |-> s[Len(s) + 1 - i]]

\* pandas' nargsort(ascending=False): the column is reversed, sorted
\* ascending, and the row numbers found are reversed again
nargsort_descending(v) ==
    LET idx == Reversed([i \in 1..Len(v) |-> i])
        sorted == argsort(Reversed(v))
    IN  Reversed([k \in 1..Len(v) |-> idx[sorted[k]]])

\* the table left in player_id order
NotSortedByPlayer(df) == df

\* df.sort_values("player", ascending=False).reset_index(drop=True): Player
\* compares by rating
SortByPlayerDesc(df) ==
    LET indexer == nargsort_descending([i \in 1..Len(df) |-> df[i].player.rating])
    IN  [k \in 1..Len(df) |-> df[indexer[k]]]

\* Tracker.get_current_ratings: rows of rank, player_id, n_games, rating
get_current_ratings(df) ==
    LET sorted == SortByPlayerDesc(df)
    IN  [i \in 1..Len(sorted) |->
            [rank |-> i,
             player_id |-> sorted[i].player_id,
             n_games |-> count_games(sorted[i].player),
             rating |-> sorted[i].player.rating]]

\* every entry of the history made a row, the undated ones too
AllEntries(h) == h

\* player_history_df[~player_history_df["date"].isna()]
DatedEntries(h) == SelectSeq(h, LAMBDA entry : entry[1] # NoDate)

\* get_history_df's rows for one Player: its dated entries, in the order of
\* rating_history, each with the Player's id
player_history_df(self) ==
    LET dated == DatedEntries(self.rating_history)
    IN  [i \in 1..Len(dated) |->
            [player_id |-> self.id, date |-> dated[i][1], rating |-> dated[i][2]]]

\* Tracker.get_history_df: the Players' rows concatenated in player_df order
RECURSIVE get_history_df(_)
get_history_df(df) ==
    IF df = <<>> THEN <<>>
    ELSE get_history_df(SubSeq(df, 1, Len(df) - 1)) \o player_history_df(df[Len(df)].player)

(***************************************************************************)
(* Inputs.                                                                 *)
(***************************************************************************)
\* the matchup rows: a date (or none) and one identity (or none) per place column
Rows == [date : Dates \cup {NoDate}, places : [1..Len(place_cols) -> RowIds \cup {NoPlayer}]]

\* the matchup tables of at most n rows
MatchupDfs(n) == SeqsUpTo(Rows, n)

SeedRow(p) == [player_id |-> p.id, player |-> p]

\* a matchup table with a third finishing-place column
wide_place_cols == <<"1st", "2nd", "3rd">>

\* its rows, all of the first date
WideRows == [date : {1}, places : [1..Len(wide_place_cols) -> RowIds \cup {NoPlayer}]]

WideDfs(n) == SeqsUpTo(WideRows, n)

\* a table of new Players one row longer than the longest table quicksort
\* sorts by insertion
League ==
    [i \in 1..(SMALL_QUICKSORT + 2) |->
        SeedRow(PlayerInit(IdOrder[i], INITIAL_RATING, NoHistory, NoDate))]

\* the ratings a vector handed to the rating algorithm is made of
EloRatings == {INITIAL_RATING - K_VALUE, INITIAL_RATING, INITIAL_RATING + K_VALUE,
               INITIAL_RATING + 500}

\* the tables a Tracker is constructed with: none, an unsorted table whose
\* first player was created with a date, and a table that repeats an identity
Seeds ==
    { <<>>,
      <<SeedRow(PlayerInit("c", INITIAL_RATING, NoHistory, 1)),
        SeedRow(PlayerInit("a", INITIAL_RATING, NoHistory, NoDate))>>,
      <<SeedRow(PlayerInit("a", INITIAL_RATING, NoHistory, NoDate)),
        SeedRow(PlayerInit("a", INITIAL_RATING, NoHistory, 1))>> }

\* the ratings handed to Player(...) and Player.update_rating directly
Ratings == {INITIAL_RATING - K_VALUE, INITIAL_RATING, INITIAL_RATING + K_VALUE}

\* the rating_history arguments of Player(...)
HistoryArgs ==
    {NoHistory, SomeHistory(<<>>), SomeHistory(<<<<1, INITIAL_RATING - K_VALUE>>>>)}

\* the default_rating arguments of get_rating_as_of_date
DefaultRatings == {INITIAL_RATING, INITIAL_RATING + 500}

NoCtor == [rating |-> INITIAL_RATING, rating_history |-> NoHistory, date |-> NoDate]

(***************************************************************************)
(* The Tracker's state machine.                                            *)
(***************************************************************************)
\* Tracker.__init__(player_df=s)
Init ==
    \E s \in Seeds :
        /\ seed = s
        /\ alive = ~validate_raises(s)
        /\ player_df = IF validate_raises(s) THEN s ELSE validate_player_df(s)
        /\ op = "Tracker"
        /\ arg = <<>>
        /\ ret = <<>>
        /\ err = validate_raises(s)
        /\ pre = <<>>
        /\ log = <<>>
        /\ submitted = 0
        /\ ctor = NoCtor
        /\ player = PlayerInit("a", NoCtor.rating, NoCtor.rating_history, NoCtor.date)

\* Tracker.process_data(matchup_history_df)
ProcessData ==
    \E matchup_history_df \in MatchupDfs(MaxRows - submitted) :
        /\ alive
        /\ submitted' = submitted + Len(matchup_history_df)
        /\ LET r == process_data(player_df, matchup_history_df)
           IN  /\ player_df' = r.df
               /\ err' = r.err
               /\ log' = log \o r.taken
        /\ op' = "process_data"
        /\ arg' = matchup_history_df
        /\ ret' = <<>>
        /\ pre' = player_df
        /\ UNCHANGED <<alive, seed, player, ctor>>

\* Tracker.get_current_ratings()
GetCurrentRatings ==
    /\ alive
    /\ op' = "get_current_ratings"
    /\ arg' = <<>>
    /\ ret' = get_current_ratings(player_df)
    /\ err' = FALSE
    /\ pre' = player_df
    /\ UNCHANGED <<alive, player_df, seed, log, submitted, player, ctor>>

Next == ProcessData \/ GetCurrentRatings

Spec == Init /\ [][Next]_vars

(***************************************************************************)
(* The Tracker with its private method and its Players called directly.    *)
(***************************************************************************)
\* Tracker._create_new_player(player_id)
CreateNewPlayer ==
    \E player_id \in AllIds :
        /\ alive
        /\ submitted < MaxRows
        /\ submitted' = submitted + 1
        /\ LET r == create_new_player(player_df, player_id)
           IN  /\ player_df' = r.df
               /\ err' = r.err
        /\ op' = "_create_new_player"
        /\ arg' = player_id
        /\ ret' = <<>>
        /\ pre' = player_df
        /\ UNCHANGED <<alive, seed, log, player, ctor>>

\* Tracker.retrieve_existing_player(player_id).update_rating(new_rating, date)
UpdateRatingOf ==
    \E player_id \in Registered(player_df), new_rating \in Ratings, date \in Dates \cup {NoDate} :
        /\ alive
        /\ submitted < MaxRows
        /\ submitted' = submitted + 1
        /\ player_df' = WithPlayer(player_df, player_id,
                                   update_rating(PlayerOf(player_df, player_id), new_rating, date))
        /\ op' = "update_rating"
        /\ arg' = <<player_id, new_rating, date>>
        /\ ret' = <<>>
        /\ err' = FALSE
        /\ pre' = player_df
        /\ UNCHANGED <<alive, seed, log, player, ctor>>

NextInternal == ProcessData \/ GetCurrentRatings \/ CreateNewPlayer \/ UpdateRatingOf

SpecInternal == Init /\ [][NextInternal]_vars

(***************************************************************************)
(* The Tracker of a league: constructed with the table League.             *)
(***************************************************************************)
\* Tracker.__init__(player_df=League)
InitLeague ==
    /\ seed = League
    /\ alive = ~validate_raises(League)
    /\ player_df = validate_player_df(League)
    /\ op = "Tracker"
    /\ arg = <<>>
    /\ ret = <<>>
    /\ err = validate_raises(League)
    /\ pre = <<>>
    /\ log = <<>>
    /\ submitted = 0
    /\ ctor = NoCtor
    /\ player = PlayerInit("a", NoCtor.rating, NoCtor.rating_history, NoCtor.date)

SpecLeague == InitLeague /\ [][Next]_vars

(***************************************************************************)
(* The Tracker fed matchup tables of three finishing places.               *)
(***************************************************************************)
\* Tracker.process_data(matchup_history_df), matchup_history_df with the
\* columns date, 1st, 2nd, 3rd
ProcessWideData ==
    \E matchup_history_df \in WideDfs(MaxRows - submitted) :
        /\ alive
        /\ submitted' = submitted + Len(matchup_history_df)
        /\ LET r == process_data(player_df, matchup_history_df)
           IN  /\ player_df' = r.df
               /\ err' = r.err
               /\ log' = log \o r.taken
        /\ op' = "process_data"
        /\ arg' = matchup_history_df
        /\ ret' = <<>>
        /\ pre' = player_df
        /\ UNCHANGED <<alive, seed, player, ctor>>

NextWide == ProcessWideData

SpecWide == Init /\ [][NextWide]_vars

(***************************************************************************)
(* The Tracker with its queries: each call of a query below counts against *)
(* the same budget as a matchup row.                                       *)
(***************************************************************************)
\* Tracker.retrieve_existing_player(player_id)
RetrieveExistingPlayer ==
    \E player_id \in AllIds :
        /\ alive
        /\ submitted < MaxRows
        /\ submitted' = submitted + 1
        /\ LET r == retrieve_existing_player(player_df, player_id)
           IN  /\ player_df' = r.df
               /\ ret' = r.ret
               /\ err' = r.err
        /\ op' = "retrieve_existing_player"
        /\ arg' = player_id
        /\ pre' = player_df
        /\ UNCHANGED <<alive, seed, log, player, ctor>>

\* get_history_df with the date filter applied to the Players' own
\* rating_history lists instead of to the table built from them
GetHistoryDfInPlace ==
    /\ alive
    /\ submitted < MaxRows
    /\ submitted' = submitted + 1
    /\ op' = "get_history_df"
    /\ arg' = <<>>
    /\ ret' = get_history_df(player_df)
    /\ err' = FALSE
    /\ pre' = player_df
    /\ player_df' = [i \in 1..Len(player_df) |->
                        [player_df[i] EXCEPT !.player.rating_history = DatedEntries(@)]]
    /\ UNCHANGED <<alive, seed, log, player, ctor>>

\* Tracker.get_history_df()
GetHistoryDf ==
    /\ alive
    /\ submitted < MaxRows
    /\ submitted' = submitted + 1
    /\ op' = "get_history_df"
    /\ arg' = <<>>
    /\ ret' = get_history_df(player_df)
    /\ err' = FALSE
    /\ pre' = player_df
    /\ UNCHANGED <<alive, player_df, seed, log, player, ctor>>

\* Tracker.retrieve_existing_player(player_id).get_rating_as_of_date(date, default_rating)
GetRatingAsOfDateOf ==
    \E player_id \in Registered(player_df), date \in Dates, default_rating \in DefaultRatings :
        /\ alive
        /\ submitted < MaxRows
        /\ submitted' = submitted + 1
        /\ op' = "get_rating_as_of_date"
        /\ arg' = <<player_id, date, default_rating>>
        /\ ret' = get_rating_as_of_date(PlayerOf(player_df, player_id), date, default_rating)
        /\ err' = FALSE
        /\ pre' = player_df
        /\ UNCHANGED <<alive, player_df, seed, log, player, ctor>>

NextQueries ==
    \/ ProcessData
    \/ GetCurrentRatings
    \/ RetrieveExistingPlayer
    \/ GetHistoryDf
    \/ GetRatingAsOfDateOf

SpecQueries == Init /\ [][NextQueries]_vars

(***************************************************************************)
(* One Player on its own.                                                  *)
(***************************************************************************)
\* Player("a", rating, rating_history, date)
InitPlayer ==
    \E rating \in Ratings, rating_history \in HistoryArgs, date \in Dates \cup {NoDate} :
        /\ ctor = [rating |-> rating, rating_history |-> rating_history, date |-> date]
        /\ player = PlayerInit("a", rating, rating_history, date)
        /\ op = "Player"
        /\ arg = <<>>
        /\ ret = <<>>
        /\ err = FALSE
        /\ alive = FALSE
        /\ player_df = <<>>
        /\ pre = <<>>
        /\ seed = <<>>
        /\ log = <<>>
        /\ submitted = 0

\* player.update_rating(new_rating, date)
UpdateRating ==
    \E new_rating \in Ratings, date \in Dates \cup {NoDate} :
        /\ Len(player.rating_history) < MaxHistory
        /\ player' = update_rating(player, new_rating, date)
        /\ submitted' = submitted + 1
        /\ op' = "update_rating"
        /\ arg' = <<new_rating, date>>
        /\ ret' = <<>>
        /\ err' = FALSE
        /\ UNCHANGED <<alive, player_df, pre, seed, ctor, log>>

\* player.get_rating_as_of_date(date, default_rating)
GetRatingAsOfDate ==
    \E date \in Dates, default_rating \in DefaultRatings :
        /\ op' = "get_rating_as_of_date"
        /\ arg' = <<date, default_rating>>
        /\ ret' = get_rating_as_of_date(player, date, default_rating)
        /\ err' = FALSE
        /\ UNCHANGED <<alive, player_df, player, pre, seed, ctor, log, submitted>>

NextPlayer == UpdateRating \/ GetRatingAsOfDate

SpecPlayer == InitPlayer /\ [][NextPlayer]_vars

(***************************************************************************)
(* The rating algorithm on its own: a vector of ratings, in finishing      *)
(* order, run through get_new_ratings round after round.                   *)
(***************************************************************************)
InitElo ==
    \E n \in 1..MaxParticipants :
        \E initial_ratings \in [1..n -> EloRatings] :
            /\ arg = initial_ratings
            /\ op = "ratings"
            /\ ret = <<>>
            /\ err = FALSE
            /\ submitted = 0
            /\ alive = FALSE
            /\ player_df = <<>>
            /\ pre = <<>>
            /\ seed = <<>>
            /\ log = <<>>
            /\ ctor = NoCtor
            /\ player = PlayerInit("a", NoCtor.rating, NoCtor.rating_history, NoCtor.date)

\* new_ratings = self.elo.get_new_ratings(initial_ratings), initial_ratings
\* the vector given at first and the previous round's new_ratings afterwards
GetNewRatings ==
    LET initial_ratings == IF op = "ratings" THEN arg ELSE ret
    IN  /\ ~err
        /\ submitted < MaxRows
        /\ submitted' = submitted + 1
        /\ op' = "get_new_ratings"
        /\ arg' = initial_ratings
        /\ err' = get_new_ratings_raises(initial_ratings)
        /\ ret' = IF get_new_ratings_raises(initial_ratings) THEN <<>>
                  ELSE get_new_ratings(initial_ratings)
        /\ UNCHANGED <<alive, player_df, player, pre, seed, ctor, log>>

NextElo == GetNewRatings

SpecElo == InitElo /\ [][NextElo]_vars

(***************************************************************************)
(* Properties.                                                             *)
(***************************************************************************)
\* the rows of log whose new ratings were written
RatedRows == {i \in 1..Len(log) : log[i].rated}

\* the number of rated rows that name id in some placement slot
RowsWith(id) ==
    Cardinality({i \in RatedRows : \E k \in 1..Len(place_cols) : log[i].row.places[k] = id})

\* the number of placement slots of rated rows that hold id
SlotsWith(id) ==
    Cardinality({ik \in RatedRows \X (1..Len(place_cols)) : log[ik[1]].row.places[ik[2]] = id})

\* C1 as stated: on a registry that started empty, count_games() of every
\* registered competitor is the number of processed matchup rows in which its
\* identity appeared.
C1_GamesEqualRows ==
    (alive /\ seed = <<>>) =>
        \A i \in 1..Len(player_df) :
            count_games(player_df[i].player) = RowsWith(player_df[i].player_id)

\* What count_games() is instead: the number of placement slots that hold the
\* identity in the rated rows (a row naming it in two slots counts twice).
GamesEqualSlots ==
    (alive /\ seed = <<>>) =>
        \A i \in 1..Len(player_df) :
            count_games(player_df[i].player) = SlotsWith(player_df[i].player_id)

\* the history entries that have a date, not later than date
DatedUpTo(h, date) == {i \in 1..Len(h) : h[i][1] # NoDate /\ h[i][1] <= date}

\* the entries of S with the latest date
Latest(h, S) == {i \in S : \A j \in S : h[j][1] <= h[i][1]}

\* C2: get_rating_as_of_date(date, default_rating) returns the rating of a
\* history entry with the latest date that is <= date, entries without a date
\* ignored, and default_rating when no dated entry is <= date.
C2_RatingAsOfDate ==
    op = "get_rating_as_of_date" =>
        LET h == player.rating_history
            S == DatedUpTo(h, arg[1])
        IN  IF S = {}
            THEN ret = arg[2]
            ELSE \E i \in Latest(h, S) : ret = h[i][2]

\* a lookup that skips an entry without a date and an entry after the date,
\* and answers with the rating of a dated entry that is neither the default
\* nor the current rating
C2_Witness ==
    /\ op = "get_rating_as_of_date"
    /\ LET h == player.rating_history
       IN  /\ DatedUpTo(h, arg[1]) # {}
           /\ \E i \in 1..Len(h) : h[i][1] = NoDate
           /\ \E i \in 1..Len(h) : h[i][1] # NoDate /\ h[i][1] > arg[1]
           /\ ret # arg[2] /\ ret # player.rating

\* C3 as stated: when several entries share the selected date, the rating
\* returned is that of the last-appended entry among them.
C3_LastAppendedWins ==
    op = "get_rating_as_of_date" =>
        LET h == player.rating_history
            S == Latest(h, DatedUpTo(h, arg[1]))
        IN  S # {} => ret = h[CHOOSE i \in S : \A j \in S : j <= i][2]

\* the orderings of the rows of df
Perms(df) == {[i \in 1..Len(df) |-> df[f[i]]] : f \in Permutations(1..Len(df))}

\* rows in ascending date order, the rows without a date last
IsSortedByDate(df) == \A i, j \in 1..Len(df) : i < j => DateKey(df[i]) <= DateKey(df[j])

\* no two rows of df have the same date (or both none)
DistinctDates(df) == \A i, j \in 1..Len(df) : i # j => df[i].date # df[j].date

\* C4 as stated: process_data on any permutation of a set of matchup rows
\* leaves the registry in the same final state as on the same rows pre-sorted
\* by ascending date.
C4_AnyOrderSameState ==
    op = "process_data" =>
        \A q \in Perms(arg) : IsSortedByDate(q) => process_data(pre, q).df = player_df

\* C4 amended: process_data on any permutation of matchup rows whose dates are
\* pairwise distinct (at most one row without a date, which goes last) leaves
\* the registry in the same final state as on the same rows pre-sorted by
\* ascending date.
C4_DistinctDatesSameState ==
    (op = "process_data" /\ DistinctDates(arg)) =>
        \A q \in Perms(arg) : IsSortedByDate(q) => process_data(pre, q).df = player_df

\* a row that names two different competitors
TwoCompetitors(row) == Cardinality({row.places[k] : k \in 1..Len(place_cols)} \ {NoPlayer}) = 2

\* a call with two rated rows of different dates handed over latest first,
\* each naming the same two competitors, whose ratings depend on the order
\* of the rows
C4_Witness ==
    /\ op = "process_data" /\ ~err /\ Len(arg) = 2
    /\ DistinctDates(arg) /\ ~IsSortedByDate(arg)
    /\ arg[1].date # NoDate
    /\ TwoCompetitors(arg[1]) /\ TwoCompetitors(arg[2])
    /\ player_df # IterRows(pre, DropAllNaN(arg), <<>>).df

\* the dated entries of a history are in non-decreasing date order
DatedInOrder(h) ==
    \A i, j \in 1..Len(h) : (i < j /\ h[i][1] # NoDate /\ h[j][1] # NoDate) => h[i][1] <= h[j][1]

\* the entries of id's history that the last operation appended
Appended(id) ==
    LET h == PlayerOf(player_df, id).rating_history
        n == IF id \in Registered(pre) THEN Len(PlayerOf(pre, id).rating_history) ELSE 0
    IN  SubSeq(h, n + 1, Len(h))

\* C5 as stated: after any sequence of process_data calls the dated entries
\* of each competitor's rating_history are in non-decreasing date order.
C5_HistoryInDateOrder ==
    alive => \A i \in 1..Len(player_df) : DatedInOrder(player_df[i].player.rating_history)

\* C5 amended: the dated entries that one process_data call appends to a
\* competitor's rating_history are in non-decreasing date order (the entries
\* of different calls need not be).
C5_CallAppendsInDateOrder ==
    op = "process_data" => \A id \in Registered(player_df) : DatedInOrder(Appended(id))

\* a call handed two rows latest first that appended two entries of
\* different dates to one competitor
C5_Witness ==
    /\ op = "process_data" /\ Len(arg) = 2 /\ ~IsSortedByDate(arg)
    /\ TwoCompetitors(arg[1]) /\ TwoCompetitors(arg[2])
    /\ \E id \in Registered(player_df) :
        LET a == Appended(id)
        IN  /\ Len(a) >= 2
            /\ \E i, j \in 1..Len(a) : a[i][1] # NoDate /\ a[i][1] < a[j][1]

\* the current rating is the rating of the last history entry
RatingIsLastEntry(self) ==
    /\ self.rating_history # <<>>
    /\ self.rating_history[Len(self.rating_history)][2] = self.rating

\* C6 as stated: after Player creation and after any sequence of update_rating
\* calls, the current rating equals the rating of the last history entry.
C6_RatingIsLastEntry == RatingIsLastEntry(player)

\* C6 amended: after creation of a Player without a rating_history argument,
\* and after any update_rating call on any Player, the current rating equals
\* the rating of the last history entry.
C6_RatingIsLastEntryOnceWritten ==
    (~ctor.rating_history.given \/ submitted > 0) => RatingIsLastEntry(player)

\* a Player built from an explicit history that disagreed with its rating,
\* after an update_rating call
C6_Witness ==
    /\ op = "update_rating"
    /\ ctor.rating_history.given
    /\ ~RatingIsLastEntry([id |-> "a", rating |-> ctor.rating,
                           rating_history |-> ctor.rating_history.value])
    /\ player.rating # ctor.rating

\* C7: rating_history is append-only: every competitor registered before an
\* operation (update_rating, _create_new_player, process_data, a query) is
\* registered after it, with its earlier history as a prefix of its history.
C7_HistoryAppendOnly ==
    alive =>
        \A id \in Registered(pre) :
            /\ id \in Registered(player_df)
            /\ IsPrefix(PlayerOf(pre, id).rating_history, PlayerOf(player_df, id).rating_history)

\* a process_data call that extended a history that already held a result
C7_Witness ==
    /\ op = "process_data"
    /\ \E id \in Registered(pre) :
        /\ Len(PlayerOf(pre, id).rating_history) >= 2
        /\ Len(PlayerOf(player_df, id).rating_history) > Len(PlayerOf(pre, id).rating_history)

\* C8: get_current_ratings returns exactly one row per registered competitor,
\* holding its current rating, with ranks 1..N each used once and ratings
\* non-increasing as the rank increases.
C8_CurrentRatingsRanked ==
    op = "get_current_ratings" =>
        /\ Len(ret) = Len(player_df)
        /\ {ret[i].player_id : i \in 1..Len(ret)} = Registered(player_df)
        /\ \A i \in 1..Len(ret) :
            /\ ret[i].rank = i
            /\ ret[i].rating = PlayerOf(player_df, ret[i].player_id).rating
        /\ \A i, j \in 1..Len(ret) : ret[i].rank < ret[j].rank => ret[i].rating >= ret[j].rating

\* a ranking of three competitors with three ratings whose order is not the
\* order of the registry
C8_Witness ==
    /\ op = "get_current_ratings"
    /\ Len(ret) = 3
    /\ ret[1].rating > ret[2].rating /\ ret[2].rating > ret[3].rating
    /\ ret[1].player_id # player_df[1].player_id

\* C9: the identities in player_df are pairwise distinct in every state of a
\* registry; a Tracker seeded with repeated identities is not constructed; and
\* _create_new_player for a registered identity raises and leaves the table
\* and every competitor as they were.
C9_UniqueIdentities ==
    /\ alive => is_unique(PlayerIds(player_df))
    /\ ~is_unique(PlayerIds(seed)) => (~alive /\ err)
    /\ (op = "_create_new_player" /\ arg \in Registered(pre)) => (err /\ player_df = pre)

\* _create_new_player called for an identity that has played
C9_Witness ==
    /\ op = "_create_new_player" /\ err
    /\ arg \in Registered(pre)
    /\ count_games(PlayerOf(player_df, arg)) > 0

\* the identities in the non-empty placement slots of the rows process_data's
\* loop has taken up
Appeared == {log[i].row.places[k] : i \in 1..Len(log), k \in 1..Len(place_cols)} \ {NoPlayer}

\* C10: the registered identities are the seeded ones and those that appeared
\* in a non-empty placement slot of a matchup process_data has taken up; a
\* competitor created by process_data starts with the initial rating and one
\* undated history entry; no operation removes a registered identity.
C10_RegisteredOnAppearance ==
    alive =>
        /\ Registered(player_df) = Registered(seed) \cup Appeared
        /\ \A id \in Registered(player_df) \ Registered(seed) :
            LET p == PlayerOf(player_df, id)
            IN  /\ p.rating_history[1] = <<NoDate, INITIAL_RATING>>
                /\ Len(p.rating_history) = 1 => p.rating = INITIAL_RATING
        /\ Registered(pre) \subseteq Registered(player_df)

\* a seeded registry in which a process_data call has created a competitor
\* and left it with its creation entry only, beside a seeded competitor that
\* has played and one that has not
C10_Witness ==
    /\ alive /\ seed # <<>> /\ op = "process_data"
    /\ \E id \in Registered(player_df) \ (Registered(seed) \cup Registered(pre)) :
        count_games(PlayerOf(player_df, id)) = 0
    /\ \E id1, id2 \in Registered(seed) :
        /\ count_games(PlayerOf(player_df, id1)) = 0
        /\ count_games(PlayerOf(player_df, id2)) > 0

\* C11: retrieve_existing_player(identity) returns the Player registered under
\* the identity when there is one; when there is none it raises, and the
\* registry after the call is the registry before it (nobody created, no
\* rating, history or row order changed), so whatever is called next starts
\* from the state it would have started from without the lookup.
C11_LookupReturnsOrRaisesUnchanged ==
    op = "retrieve_existing_player" =>
        /\ player_df = pre
        /\ Registered(player_df) = Registered(pre)
        /\ IF arg \in Registered(pre)
           THEN ~err /\ ret.id = arg /\ ret = PlayerOf(pre, arg)
           ELSE err

\* a lookup of an unregistered identity has failed on a registry that holds players
C11_Witness ==
    op = "retrieve_existing_player" /\ err /\ arg \notin Registered(pre) /\ Len(pre) > 0

\* the rows of a history table that carry identity id, in the table's order
RowsOf(history_df, id) == SelectSeq(history_df, LAMBDA r : r.player_id = id)

\* the (date, rating) pairs of a sequence of history rows
AsEntries(rows) == [i \in 1..Len(rows) |-> <<rows[i].date, rows[i].rating>>]

\* s is t with some elements left out, the others in t's order
RECURSIVE IsSubsequence(_, _)
IsSubsequence(s, t) ==
    IF s = <<>> THEN TRUE
    ELSE IF t = <<>> THEN FALSE
    ELSE IF Head(s) = Head(t) THEN IsSubsequence(Tail(s), Tail(t))
    ELSE IsSubsequence(s, Tail(t))

\* C12 as claimed: get_history_df returns, for every registered competitor,
\* one row per result recorded for it (as many rows as count_games()), no row
\* without a date, and the competitor's rows in the order of its history.
C12_OneRowPerResult ==
    op = "get_history_df" =>
        /\ \A i \in 1..Len(ret) : ret[i].date # NoDate /\ ret[i].player_id \in Registered(player_df)
        /\ \A id \in Registered(player_df) :
            /\ Len(RowsOf(ret, id)) = count_games(PlayerOf(player_df, id))
            /\ IsSubsequence(AsEntries(RowsOf(ret, id)), PlayerOf(player_df, id).rating_history)

\* the history has the undated entry of a creation first and dated entries after it
CreatedUndatedThenDated(h) ==
    /\ Len(h) >= 1
    /\ h[1][1] = NoDate
    /\ \A i \in 2..Len(h) : h[i][1] # NoDate

\* C12 amended: get_history_df returns, for every registered competitor, one
\* row per entry of its rating_history that has a date, in the order of the
\* history, and no row for an entry without a date; the competitor has
\* count_games() rows when its first entry is the only one without a date.
C12_OneRowPerDatedEntry ==
    op = "get_history_df" =>
        /\ \A i \in 1..Len(ret) : ret[i].date # NoDate /\ ret[i].player_id \in Registered(player_df)
        /\ \A id \in Registered(player_df) :
            LET h == PlayerOf(player_df, id).rating_history
                rows == AsEntries(RowsOf(ret, id))
            IN  /\ IsSubsequence(rows, h)
                /\ Len(rows) = Cardinality({i \in 1..Len(h) : h[i][1] # NoDate})
                /\ CreatedUndatedThenDated(h) => Len(rows) = count_games(PlayerOf(player_df, id))

\* the history table of a registry in which one player has a dated result and
\* another an entry without a date after its first
C12_Witness ==
    /\ op = "get_history_df"
    /\ Len(ret) > 0
    /\ \E id \in Registered(player_df) :
        LET h == PlayerOf(player_df, id).rating_history
        IN  \E i \in 2..Len(h) : h[i][1] = NoDate

\* the read-only queries
QueryOps == {"get_current_ratings", "get_history_df", "get_rating_as_of_date"}

\* what the query that was just called returns when it is called again, with
\* the same arguments, in the state it left
CalledAgain ==
    CASE op = "get_current_ratings" -> get_current_ratings(player_df)
      [] op = "get_history_df" -> get_history_df(player_df)
      [] op = "get_rating_as_of_date" ->
            get_rating_as_of_date(PlayerOf(player_df, arg[1]), arg[2], arg[3])

\* C13: get_current_ratings, get_history_df and get_rating_as_of_date leave
\* the registry as it was (same competitors in the same rows, same ratings,
\* same rating histories), and the same query called again right after
\* returns what it has just returned.
C13_QueriesChangeNothing ==
    op \in QueryOps =>
        /\ player_df = pre
        /\ \A id \in Registered(pre) :
            /\ id \in Registered(player_df)
            /\ PlayerOf(player_df, id).rating = PlayerOf(pre, id).rating
            /\ PlayerOf(player_df, id).rating_history = PlayerOf(pre, id).rating_history
        /\ ret = CalledAgain

\* a query has been called on a registry that holds a player whose history
\* has an entry without a date and a rated matchup
C13_Witness ==
    /\ op \in QueryOps
    /\ \E id \in Registered(player_df) :
        LET h == PlayerOf(player_df, id).rating_history
        IN  Len(h) >= 2 /\ h[1][1] = NoDate

\* the row has an identity in some placement slot
SomeSlot(row) == \E k \in 1..Len(row.places) : row.places[k] # NoPlayer

\* the identities in the non-empty slots of a row, first place to last
RECURSIVE NonEmptySlots(_)
NonEmptySlots(places) ==
    IF places = <<>> THEN <<>>
    ELSE IF Head(places) = NoPlayer THEN NonEmptySlots(Tail(places))
    ELSE <<Head(places)>> \o NonEmptySlots(Tail(places))

\* the rows of a matchup table that have an identity in some slot
RowsWithSomeSlot(df) == SelectSeq(df, SomeSlot)

\* the Player that identity id stands for when a matchup starts on registry
\* df: the registered one, or one just created
Before(df, id) ==
    IF id \in Registered(df) THEN PlayerOf(df, id)
    ELSE PlayerInit(id, INITIAL_RATING, NoHistory, NoDate)

\* the history entries a matchup of participants ids and new ratings out
\* appends for identity id, in slot order
AppendedFor(ids, out, date, id) ==
    LET slots == SelectSeq([i \in 1..Len(ids) |-> i], LAMBDA i : ids[i] = id)
    IN  [k \in 1..Len(slots) |-> <<date, out[slots[k]]>>]

\* the last call handed over one matchup row, whose participants are the
\* identities of its non-empty slots in first-to-last order: they are the
\* ones registered by it, their ratings before it are the algorithm's input,
\* and each gets a history entry per slot it fills (none when the algorithm
\* rejects the row)
SlotsAreParticipants(row) ==
    LET ids == NonEmptySlots(row.places)
        in == [i \in 1..Len(ids) |-> Before(pre, ids[i]).rating]
        out == get_new_ratings(in)
    IN  /\ Registered(player_df) = Registered(pre) \cup {ids[i] : i \in 1..Len(ids)}
        /\ err = (Len(ids) < 2)
        /\ \A id \in Registered(player_df) :
            PlayerOf(player_df, id).rating_history =
                Before(pre, id).rating_history \o
                    (IF err THEN <<>> ELSE AppendedFor(ids, out, row.date, id))

\* C14: process_data discards a row whose placement slots are all empty: the
\* call ends in the state, and raises or not, as the call without those rows
\* does, and a table of such rows only changes nothing; in a row with some
\* empty slots the participants are the non-empty slots, first to last.
C14_EmptySlotsSkipped ==
    op = "process_data" =>
        LET kept == RowsWithSomeSlot(arg)
        IN  /\ NoPlayer \notin Registered(player_df)
            /\ player_df = process_data(pre, kept).df
            /\ err = process_data(pre, kept).err
            /\ kept = <<>> => player_df = pre /\ ~err
            /\ Len(kept) = 1 => SlotsAreParticipants(kept[1])

\* a table of an all-empty row and a row with an empty slot between two
\* different participants has been processed
C14_Witness ==
    /\ op = "process_data"
    /\ ~err
    /\ Len(arg) = 2
    /\ \E i, j \in 1..2 :
        /\ ~SomeSlot(arg[i])
        /\ arg[j].places[1] # NoPlayer
        /\ arg[j].places[2] = NoPlayer
        /\ arg[j].places[3] \notin {NoPlayer, arg[j].places[1]}
    /\ player_df # pre

\* the sum of a vector of ratings
RECURSIVE SumOfRatings(_)
SumOfRatings(ratings) ==
    IF ratings = <<>> THEN 0 ELSE Head(ratings) + SumOfRatings(Tail(ratings))

\* C15: the new ratings the algorithm returns for a vector of two or more
\* ratings are as many as the ratings it was given and have the same sum.
C15_ZeroSum ==
    (op = "get_new_ratings" /\ ~err) =>
        /\ Len(ret) = Len(arg)
        /\ SumOfRatings(ret) = SumOfRatings(arg)

\* the algorithm has moved rating between three participants of different ratings
C15_Witness ==
    /\ op = "get_new_ratings"
    /\ ~err
    /\ Len(arg) = 3
    /\ arg[1] # arg[2] /\ arg[2] # arg[3] /\ arg[1] # arg[3]
    /\ \A i \in 1..3 : ret[i] # arg[i]

\* what C16 says of one matchup row processed on registry pre: the ratings
\* the participants had before it are the algorithm's input, and afterwards
\* the participant of the i-th non-empty slot has the i-th new rating as its
\* rating, entered in its history under the row's date
SlotsGetTheirOutput(row) ==
    LET ids == NonEmptySlots(row.places)
        in == [i \in 1..Len(ids) |-> Before(pre, ids[i]).rating]
        out == get_new_ratings(in)
    IN  \A i \in 1..Len(ids) :
            LET after == PlayerOf(player_df, ids[i])
                appended == SubSeq(after.rating_history,
                                   Len(Before(pre, ids[i]).rating_history) + 1,
                                   Len(after.rating_history))
            IN  /\ after.rating = out[i]
                /\ \E k \in 1..Len(appended) : appended[k] = <<row.date, out[i]>>

\* the last call was process_data with one row to process, and rated it
OneMatchupRated == op = "process_data" /\ ~err /\ Len(RowsWithSomeSlot(arg)) = 1

\* C16 as claimed: after a matchup the participant in the i-th non-empty
\* placement slot has as current rating the i-th element of the algorithm's
\* output for the ratings held before the matchup, recorded in its history
\* with the matchup's date.
C16_SlotGetsItsOutput ==
    OneMatchupRated => SlotsGetTheirOutput(RowsWithSomeSlot(arg)[1])

\* the same for the rows that name no identity twice
SlotGetsItsOutputWhenDistinct ==
    (OneMatchupRated /\ is_unique(NonEmptySlots(RowsWithSomeSlot(arg)[1].places)))
        => SlotsGetTheirOutput(RowsWithSomeSlot(arg)[1])

\* C18: whenever a Tracker exists (its constructor returned), the rows of
\* player_df are in ascending order of player_id.
C18_SortedByIdentity ==
    alive => \A i \in 1..(Len(player_df) - 1) :
                 IdOrd(player_df[i].player_id) < IdOrd(player_df[i + 1].player_id)

\* a player has been created whose identity sorts between two registered ones
C18_Witness ==
    /\ op = "_create_new_player"
    /\ ~err
    /\ Len(player_df) = 3
    /\ player_df[2].player_id = arg

\* the identities named in the placement slots of a row
SlotIds(row) == {row.places[k] : k \in 1..Len(row.places)}

\* C19: a matchup changes neither the rating nor the rating_history of a
\* registered competitor that is in none of its slots: after a call of
\* process_data the competitors that no row of the table names are as they
\* were before it, and so is, in the state reached, every competitor outside
\* the row for each row the loop could take up next.
C19_NonParticipantsUnchanged ==
    /\ op = "process_data" =>
           \A id \in Registered(pre) :
               (\A i \in 1..Len(arg) : id \notin SlotIds(arg[i])) =>
                   /\ id \in Registered(player_df)
                   /\ PlayerOf(player_df, id).rating = PlayerOf(pre, id).rating
                   /\ PlayerOf(player_df, id).rating_history = PlayerOf(pre, id).rating_history
    /\ alive =>
           \A row \in WideRows : \A id \in Registered(player_df) \ SlotIds(row) :
               LET after == ProcessRow(player_df, row).df
               IN  /\ id \in Registered(after)
                   /\ PlayerOf(after, id).rating = PlayerOf(player_df, id).rating
                   /\ PlayerOf(after, id).rating_history = PlayerOf(player_df, id).rating_history

\* a matchup of three slots filled by two different participants has been
\* rated while a competitor in none of its slots was registered
C19_Witness ==
    /\ op = "process_data"
    /\ ~err
    /\ Len(arg) = 1
    /\ Cardinality(SlotIds(arg[1]) \ {NoPlayer}) = 2
    /\ \E id \in Registered(pre) : id \notin SlotIds(arg[1])
    /\ \E id \in SlotIds(arg[1]) \ {NoPlayer} :
           count_games(PlayerOf(player_df, id)) > count_games(Before(pre, id))

\* C17 as claimed: in the table get_current_ratings returns, competitors of
\* equal rating come in the order of their rows in player_df, which is
\* ascending identity.
C17_TiesInRegistryOrder ==
    op = "get_current_ratings" =>
        \A i, j \in 1..Len(ret) :
            (i < j /\ ret[i].rating = ret[j].rating)
                => IdOrd(ret[i].player_id) < IdOrd(ret[j].player_id)

\* the same for the registries quicksort sorts by insertion
TiesInRegistryOrderWhenShort ==
    Len(player_df) <= SMALL_QUICKSORT + 1 => C17_TiesInRegistryOrder

\* the ranking is what get_current_ratings returns for the registry, whenever
\* it is called
RankingIsDetermined ==
    op = "get_current_ratings" => ret = get_current_ratings(player_df)
====
